---- MODULE Spec2Model ----
(***************************************************************************)
(* Branch-isolation commit engine of redgit (redgit/core/gitops.py).       *)
(*                                                                         *)
(* The repository is a record: commits (a DAG of trees), branches, the     *)
(* checked-out branch, the index, the working tree, the unmerged paths and *)
(* the stash stack.  GitOps.create_branch_and_commit is a sequence of git  *)
(* commands; each command is one action, ordered by pc, and every command  *)
(* either takes effect as git does or raises.  A command can also raise    *)
(* for a reason outside the repository (a lock file, a hook, a full disk): *)
(* such an environment failure leaves the repository unchanged and is      *)
(* counted in faultsLeft.                                                  *)
(***************************************************************************)
EXTENDS Naturals, Sequences, FiniteSets, TLC

VARIABLES
    repo,               \* the git repository (record, see TypeOK)
    original_branch,    \* self.original_branch, set by GitOps.__init__
    pc,                 \* position inside create_branch_and_commit
    branch_name,        \* argument
    files,              \* argument
    strategy,           \* argument
    safe_files,         \* local
    actual_branch_name, \* local
    stash_created,      \* local
    remaining_stashed,  \* local
    result,             \* "none" | "true" | "false" | "raised"
    raisedAt,           \* the step whose error the call re-raises ("none" if none)
    ops,                \* git commands attempted by the current call, in order
    pre,                \* the repository when the current call began
    callNo,             \* number of calls begun on this GitOps instance
    callsLeft,          \* calls the caller will still make
    faultsLeft,         \* environment failures that may still happen
    groups,             \* propose: the commit groups, in list order
    workflow_strategy,  \* propose: workflow["strategy"] ("none" outside propose)
    session,            \* propose: branches saved by add_session_branch
    outcomes,           \* propose: how each finished group's call ended
    start,              \* the repository when the GitOps instance was built
    changes,            \* result of the last get_changes(include_excluded=False)
    all_changes,        \* result of the last get_changes(include_excluded=True)
    excluded,           \* result of the last get_excluded_changes()
    index_diff_reversed, \* whether index.diff("HEAD") reports from the index's side
    reads               \* calls of the inspector made so far

vars == << repo, original_branch, pc, branch_name, files, strategy, safe_files,
           actual_branch_name, stash_created, remaining_stashed, result,
           raisedAt, ops, pre, callNo, callsLeft, faultsLeft, groups,
           workflow_strategy, session, outcomes, start, changes, all_changes,
           excluded, index_diff_reversed, reads >>

\* The state of the propose loop around the engine.
loopVars == << groups, workflow_strategy, session, outcomes, start >>

\* The state of the change inspector.
inspectVars == << changes, all_changes, excluded, index_diff_reversed, reads >>

\* What a variable of the inspector holds: no list yet, or the list returned.
NotCalled == [called |-> FALSE, list |-> << >>]
Listed(l) == [called |-> TRUE, list |-> l]

-----------------------------------------------------------------------------
(* Bounds of the model. *)

MaxFaults == 1

-----------------------------------------------------------------------------
(* Paths, contents, branch names. *)

Files == {"a.py", "b.py", ".env"}

\* File contents: "none" is an absent file, "v1" the content committed on the
\* base, "v2" the user's uncommitted edit, "v3" content committed on another
\* branch, "cf" a file holding conflict markers.
Absent == "none"
Contents == {"none", "v1", "v2", "v3", "cf"}

AllAbsent == [f \in Files |-> Absent]

BaseName == "main"
RequestedNames == {"feat", "feature/"}
Suffixed(name) == name \o "-v2"
BranchNames == {BaseName} \cup RequestedNames \cup {Suffixed(n) : n \in RequestedNames}

\* git check-ref-format: a branch name may not end with a slash.
ValidName(name) == name # "feature/"

\* is_excluded(path): the sensitive-file predicate; ".env" is excluded.
IsExcluded(f) == f = ".env"

-----------------------------------------------------------------------------
(* The commit graph. *)

RECURSIVE Ancestors(_, _)
\* The commits reachable from commit c, c included.
Ancestors(commits, c) ==
    {c} \cup UNION {Ancestors(commits, p) : p \in commits[c].parents}

SetMax(S) == CHOOSE x \in S : \A y \in S : y <= x

\* Commits are numbered in creation order, so the youngest common ancestor
\* is a lowest common ancestor.
MergeBase(commits, c1, c2) ==
    SetMax(Ancestors(commits, c1) \cap Ancestors(commits, c2))

Exists(r, name) == name \in BranchNames /\ r.branches[name] # 0
HeadCommit(r) == r.branches[r.head]
HeadTree(r) == r.commits[HeadCommit(r)].tree
TreeOf(r, name) == r.commits[r.branches[name]].tree

\* Commits reachable from some branch.
Reachable(r) ==
    UNION {Ancestors(r.commits, r.branches[n]) : n \in {m \in BranchNames : r.branches[m] # 0}}

\* Any staged, unstaged or untracked change (what `git status` would list).
Dirty(r) == r.index # HeadTree(r) \/ r.wt # r.index

Ok(r) == [ok |-> TRUE, repo |-> r]
Fail(r) == [ok |-> FALSE, repo |-> r]

-----------------------------------------------------------------------------
(* The git commands the engine runs.  Each takes the repository and returns *)
(* [ok, repo]: ok = FALSE is a raised GitCommandError (or, for the index    *)
(* calls, a Python exception).                                              *)

\* git stash push -u -m <label>.  With nothing to save git prints "No local
\* changes to save" and exits 0: no entry is pushed and nothing is raised.
GitStashPush(r, label, call) ==
    IF r.unmerged # {} THEN Fail(r)
    ELSE IF ~Dirty(r) THEN Ok(r)
    ELSE Ok([r EXCEPT
            !.stash = << [base |-> HeadTree(r), idx |-> r.index, wt |-> r.wt,
                          label |-> label, call |-> call] >> \o @,
            !.index = HeadTree(r),
            !.wt = HeadTree(r)])

\* git stash pop: a three-way merge of the entry's tracked files (base: the
\* commit it was made on, ours: the index, theirs: the stashed working tree),
\* then the entry's untracked files.  The entry is dropped only when nothing
\* conflicted and every untracked file could be written.
GitStashPop(r) ==
    IF r.stash = << >> \/ r.unmerged # {} THEN Fail(r)
    ELSE
    LET e == Head(r.stash)
        tracked == {f \in Files : e.base[f] # Absent \/ e.idx[f] # Absent}
        changed == {f \in tracked : e.wt[f] # e.base[f]}
        takes == {f \in changed : r.index[f] = e.base[f]}
        conflicts == {f \in changed : r.index[f] # e.base[f] /\ r.index[f] # e.wt[f]}
        untracked == {f \in Files \ tracked : e.wt[f] # Absent}
        collide == {f \in untracked : r.wt[f] # Absent}
        abort == \E f \in takes \cup conflicts : r.wt[f] # r.index[f]
        newWt == [f \in Files |->
                    IF f \in takes THEN e.wt[f]
                    ELSE IF f \in conflicts THEN "cf"
                    ELSE IF f \in untracked \ collide THEN e.wt[f]
                    ELSE r.wt[f]]
        newIndex == [f \in Files |->
                    IF f \in takes /\ (conflicts # {} \/ e.base[f] = Absent)
                    THEN e.wt[f] ELSE r.index[f]]
        clean == conflicts = {} /\ collide = {}
    IN  IF abort THEN Fail(r)
        ELSE [ok |-> clean,
              repo |-> [r EXCEPT !.wt = newWt,
                                 !.index = newIndex,
                                 !.unmerged = conflicts,
                                 !.stash = IF clean THEN Tail(@) ELSE @]]

\* git reset HEAD: the index becomes HEAD's tree, unmerged entries go.
GitReset(r) == Ok([r EXCEPT !.index = HeadTree(r), !.unmerged = {}])

\* repo.index.add([f]): the file's content enters the index; a missing file
\* raises.
IndexAdd(r, f) ==
    IF r.wt[f] = Absent THEN Fail(r)
    ELSE Ok([r EXCEPT !.index[f] = r.wt[f]])

\* Mutant: the commit is made on the base branch instead of the branch that
\* is checked out.
IndexCommit_OnBase(r) ==
    IF r.unmerged # {} THEN Fail(r)
    ELSE Ok([r EXCEPT
            !.commits = Append(@, [tree |-> r.index,
                                   parents |-> {r.branches[original_branch]}]),
            !.branches[original_branch] = Len(r.commits) + 1])

\* repo.index.commit(message): a commit of the index on the checked-out
\* branch, made even when nothing is staged; unmerged entries raise.
IndexCommit(r) ==
    IF r.unmerged # {} THEN Fail(r)
    ELSE Ok([r EXCEPT
            !.commits = Append(@, [tree |-> r.index, parents |-> {HeadCommit(r)}]),
            !.branches[r.head] = Len(r.commits) + 1])

\* Switching the working tree from HEAD's tree to tree `new`: a path the two
\* trees differ on must be clean, or already hold the new content in the
\* index.
SwitchBlocked(r, new) ==
    \E f \in Files :
        /\ HeadTree(r)[f] # new[f]
        /\ ~(r.index[f] = HeadTree(r)[f] /\ r.wt[f] = r.index[f])
        /\ r.index[f] # new[f]

SwitchTree(r, new) ==
    [r EXCEPT
        !.index = [f \in Files |->
                    IF HeadTree(r)[f] # new[f] /\ r.index[f] # new[f]
                    THEN new[f] ELSE r.index[f]],
        !.wt = [f \in Files |->
                    IF HeadTree(r)[f] # new[f] /\ r.index[f] # new[f]
                    THEN new[f] ELSE r.wt[f]]]

\* git checkout <name>
GitCheckout(r, name) ==
    IF ~Exists(r, name) \/ r.unmerged # {} THEN Fail(r)
    ELSE IF SwitchBlocked(r, TreeOf(r, name)) THEN Fail(r)
    ELSE Ok([SwitchTree(r, TreeOf(r, name)) EXCEPT !.head = name])

\* Mutant: git checkout -B, which resets an existing branch to the base.
GitCheckoutNew_Force(r, name, base) ==
    IF ~ValidName(name) \/ ~Exists(r, base) \/ r.unmerged # {}
    THEN Fail(r)
    ELSE IF SwitchBlocked(r, TreeOf(r, base)) THEN Fail(r)
    ELSE Ok([SwitchTree(r, TreeOf(r, base)) EXCEPT
                !.head = name,
                !.branches[name] = r.branches[base]])

\* git checkout -b <name> <base>
GitCheckoutNew(r, name, base) ==
    IF ~ValidName(name) \/ Exists(r, name) \/ ~Exists(r, base) \/ r.unmerged # {}
    THEN Fail(r)
    ELSE IF SwitchBlocked(r, TreeOf(r, base)) THEN Fail(r)
    ELSE Ok([SwitchTree(r, TreeOf(r, base)) EXCEPT
                !.head = name,
                !.branches[name] = r.branches[base]])

\* git merge <name> [--no-ff -m ...] into the checked-out branch, one path at
\* a time: a path changed on one side takes that side, a path changed
\* differently on both sides conflicts.
GitMerge(r, name, noff) ==
    IF ~Exists(r, name) \/ r.unmerged # {} THEN Fail(r)
    ELSE
    LET h == HeadCommit(r)
        t == r.branches[name]
        b == MergeBase(r.commits, h, t)
        ours == r.commits[h].tree
        theirs == r.commits[t].tree
        base == r.commits[b].tree
        conflicts == {f \in Files : ours[f] # theirs[f] /\ ours[f] # base[f]
                                        /\ theirs[f] # base[f]}
        merged == [f \in Files |-> IF ours[f] = base[f] THEN theirs[f] ELSE ours[f]]
        touched == {f \in Files : merged[f] # ours[f]} \cup conflicts
        blocked == \/ \E f \in touched : r.index[f] # ours[f] \/ r.wt[f] # r.index[f]
                   \/ (noff /\ r.index # ours)
        fastForward == b = h /\ ~noff
        after == [r EXCEPT
                    !.index = [f \in Files |-> IF f \in touched THEN merged[f] ELSE @[f]],
                    !.wt = [f \in Files |->
                              IF f \in conflicts THEN "cf"
                              ELSE IF f \in touched THEN merged[f] ELSE @[f]]]
    IN  IF b = t THEN Ok(r)
        ELSE IF blocked THEN Fail(r)
        ELSE IF conflicts # {} THEN Fail([after EXCEPT !.unmerged = conflicts])
        ELSE IF fastForward THEN Ok([after EXCEPT !.branches[r.head] = t])
        ELSE Ok([after EXCEPT
                    !.commits = Append(@, [tree |-> merged, parents |-> {h, t}]),
                    !.branches[r.head] = Len(r.commits) + 1])

\* git branch -d <name>: refuses the checked-out branch and a branch that is
\* not merged into HEAD.
GitBranchDelete(r, name) ==
    IF \/ ~Exists(r, name)
       \/ name = r.head
       \/ r.branches[name] \notin Ancestors(r.commits, HeadCommit(r))
    THEN Fail(r)
    ELSE Ok([r EXCEPT !.branches[name] = 0])

-----------------------------------------------------------------------------
(* Initial repositories.  Commit 1 is an empty root commit, commit 2 the    *)
(* tip of main; every file has one of the statuses git can report for it.  *)

\* status -> content in HEAD's tree, in the index, in the working tree
Statuses == {"absent", "clean", "M", "MS", "D", "U", "A"}
InHead(st) == IF st \in {"clean", "M", "MS", "D"} THEN "v1" ELSE Absent
InIndex(st) == CASE st \in {"clean", "M", "D"} -> "v1"
                 [] st \in {"MS", "A"} -> "v2"
                 [] OTHER -> Absent
InTree(st) == CASE st = "clean" -> "v1"
                [] st \in {"M", "MS", "U", "A"} -> "v2"
                [] OTHER -> Absent

StatusChoices(f) ==
    CASE f = "a.py" -> Statuses
      [] f = "b.py" -> Statuses
      [] OTHER -> {"absent", "U", "M", "A"}

\* What else the repository holds when the engine is constructed:
\*   "none"    only main
\*   "same"    a branch feat at main's tip
\*   "ahead"   a branch feat one commit ahead of main, with its own b.py
\*   "forked"  a branch feat forked from the root, with its own b.py
\*   "taken"   the suffixed names exist (at main's tip)
\*   "stash"   only main, and one stash entry of the user's
Scenarios == {"none", "same", "ahead", "forked", "taken", "stash"}

InitRepo(st, sc) ==
    LET mainTree == [f \in Files |-> InHead(st[f])]
        featTree == IF sc = "ahead" THEN [mainTree EXCEPT !["b.py"] = "v3"]
                    ELSE [AllAbsent EXCEPT !["b.py"] = "v3"]
        featParent == IF sc = "ahead" THEN 2 ELSE 1
        extra == IF sc \in {"ahead", "forked"}
                 THEN << [tree |-> featTree, parents |-> {featParent}] >>
                 ELSE << >>
    IN  [commits |-> << [tree |-> AllAbsent, parents |-> {}],
                        [tree |-> mainTree, parents |-> {1}] >> \o extra,
         branches |-> [n \in BranchNames |->
                         CASE n = BaseName -> 2
                           [] n = "feat" /\ sc = "same" -> 2
                           [] n = "feat" /\ sc \in {"ahead", "forked"} -> 3
                           [] n \in {Suffixed(m) : m \in RequestedNames} /\ sc = "taken" -> 2
                           [] OTHER -> 0],
         head |-> BaseName,
         index |-> [f \in Files |-> InIndex(st[f])],
         wt |-> [f \in Files |-> InTree(st[f])],
         unmerged |-> {},
         stash |-> IF sc = "stash"
                   THEN << [base |-> mainTree, idx |-> mainTree,
                            wt |-> [mainTree EXCEPT !["b.py"] = "v3"],
                            label |-> "user", call |-> 0] >>
                   ELSE << >>]

Init ==
    /\ \E st \in [Files -> Statuses], sc \in Scenarios :
          /\ \A f \in Files : st[f] \in StatusChoices(f)
          /\ repo = InitRepo(st, sc)
    /\ original_branch = BaseName
    /\ pc = "idle"
    /\ branch_name = "none"
    /\ files = {}
    /\ strategy = "none"
    /\ safe_files = {}
    /\ actual_branch_name = "none"
    /\ stash_created = FALSE
    /\ remaining_stashed = FALSE
    /\ result = "none"
    /\ raisedAt = "none"
    /\ ops = << >>
    /\ pre = repo
    /\ callNo = 0
    /\ callsLeft = 1
    /\ faultsLeft = MaxFaults
    /\ groups = << >>
    /\ workflow_strategy = "none"
    /\ session = << >>
    /\ outcomes = << >>
    /\ start = repo
    /\ changes = NotCalled
    /\ all_changes = NotCalled
    /\ excluded = NotCalled
    /\ index_diff_reversed = FALSE
    /\ reads = 0

-----------------------------------------------------------------------------
(* GitOps.create_branch_and_commit, one action per git command.             *)

Strategies == {"local-merge", "merge-request"}

FileOrder == << "a.py", "b.py", ".env" >>

\* The first path of S in list order.
FirstOf(S) ==
    FileOrder[CHOOSE i \in DOMAIN FileOrder :
                /\ FileOrder[i] \in S
                /\ \A j \in DOMAIN FileOrder : FileOrder[j] \in S => i <= j]

\* Mutant: the filter forgets the exclusion predicate.
SafeFiles_NoExclusion(r, fs) == {f \in fs : r.wt[f] # Absent}

\* Mutant: the filter forgets the existence test.
SafeFiles_NoExists(r, fs) == {f \in fs : ~IsExcluded(f)}

\* Mutant: a tracked path deleted from disk stays in safe_files.
SafeFiles_KeepsDeleted(r, fs) ==
    {f \in fs : ~IsExcluded(f) /\ (r.wt[f] # Absent \/ r.index[f] # Absent)}

\* safe_files = [f for f in files if not is_excluded(f) and Path(f).exists()]
SafeFiles(r, fs) == {f \in fs : ~IsExcluded(f) /\ r.wt[f] # Absent}

\* The ways a command can end: as git decides, or (while the environment may
\* still fail) by raising without having changed anything.
Outcomes(res) ==
    {[ok |-> res.ok, repo |-> res.repo, fault |-> FALSE]}
    \cup IF faultsLeft > 0 /\ res.ok
         THEN {[ok |-> FALSE, repo |-> repo, fault |-> TRUE]}
         ELSE {}

\* The command ran with outcome o: the repository, the log, the fault budget.
Ran(o, op, arg) ==
    /\ repo' = o.repo
    /\ ops' = Append(ops, [op |-> op, arg |-> arg, ok |-> o.ok, fault |-> o.fault])
    /\ faultsLeft' = IF o.fault THEN faultsLeft - 1 ELSE faultsLeft

Args == << original_branch, branch_name, files, strategy, safe_files, pre,
           callNo, callsLeft, loopVars, inspectVars >>

\* Paths handed to index.add by the current call so far.
Attempted == {ops[i].arg : i \in {j \in DOMAIN ops : ops[j].op = "add"}}

\* Mutant: the call reads the checked-out branch again when it begins.
Enter_RereadsBranch(b, fs, s) ==
    /\ pc = "idle"
    /\ callsLeft > 0
    /\ callsLeft' = callsLeft - 1
    /\ callNo' = callNo + 1
    /\ original_branch' = repo.head
    /\ branch_name' = b
    /\ files' = fs
    /\ strategy' = s
    /\ safe_files' = SafeFiles(repo, fs)
    /\ actual_branch_name' = b
    /\ pre' = repo
    /\ ops' = << >>
    /\ raisedAt' = "none"
    /\ stash_created' = FALSE
    /\ remaining_stashed' = FALSE
    /\ IF SafeFiles(repo, fs) = {}
       THEN pc' = "idle" /\ result' = "false"
       ELSE pc' = "stash" /\ result' = "none"
    /\ UNCHANGED << repo, faultsLeft >>

\* Entry: filter the files; nothing safe to commit returns False at once.
Enter(b, fs, s) ==
    /\ pc = "idle"
    /\ callsLeft > 0
    /\ callsLeft' = callsLeft - 1
    /\ callNo' = callNo + 1
    /\ branch_name' = b
    /\ files' = fs
    /\ strategy' = s
    /\ safe_files' = SafeFiles(repo, fs)
    /\ actual_branch_name' = b
    /\ pre' = repo
    /\ ops' = << >>
    /\ raisedAt' = "none"
    /\ stash_created' = FALSE
    /\ remaining_stashed' = FALSE
    /\ IF SafeFiles(repo, fs) = {}
       THEN pc' = "idle" /\ result' = "false"
       ELSE pc' = "stash" /\ result' = "none"
    /\ UNCHANGED << repo, original_branch, faultsLeft >>

\* A single call of the engine by some caller.
Call(b, fs, s) == Enter(b, fs, s) /\ UNCHANGED << loopVars, inspectVars >>

\* 1. Stash all changes (including untracked)
Stash ==
    /\ pc = "stash"
    /\ \E o \in Outcomes(GitStashPush(repo, "redgit-temp-" \o branch_name, callNo)) :
          /\ Ran(o, "stash push", "temp")
          /\ stash_created' = o.ok
    /\ pc' = "create"
    /\ UNCHANGED << Args, actual_branch_name, remaining_stashed, result, raisedAt >>

\* Mutant: a failed `checkout -b` goes straight to the suffixed name.
Create_SkipsPlainCheckout ==
    /\ pc = "create"
    /\ \E o \in Outcomes(GitCheckoutNew(repo, branch_name, original_branch)) :
          /\ Ran(o, "checkout -b", branch_name)
          /\ pc' = IF o.ok THEN "pop" ELSE "suffix"
    /\ UNCHANGED << Args, actual_branch_name, stash_created, remaining_stashed,
                    result, raisedAt >>

\* 2. Create and checkout feature branch from base
Create ==
    /\ pc = "create"
    /\ \E o \in Outcomes(GitCheckoutNew(repo, branch_name, original_branch)) :
          /\ Ran(o, "checkout -b", branch_name)
          /\ pc' = IF o.ok THEN "pop" ELSE "checkout"
    /\ UNCHANGED << Args, actual_branch_name, stash_created, remaining_stashed,
                    result, raisedAt >>

\* Mutant: the existing branch is never reused; a failed `checkout -b` goes
\* straight to the suffixed name.
Checkout_NeverReuses ==
    /\ pc = "checkout"
    /\ \E o \in Outcomes(Fail(repo)) :
          /\ Ran(o, "checkout", branch_name)
          /\ pc' = "suffix"
    /\ UNCHANGED << Args, actual_branch_name, stash_created, remaining_stashed,
                    result, raisedAt >>

\* 2. (branch might exist) plain checkout
Checkout ==
    /\ pc = "checkout"
    /\ \E o \in Outcomes(GitCheckout(repo, branch_name)) :
          /\ Ran(o, "checkout", branch_name)
          /\ pc' = IF o.ok THEN "pop" ELSE "suffix"
    /\ UNCHANGED << Args, actual_branch_name, stash_created, remaining_stashed,
                    result, raisedAt >>

\* 2. (try with suffix) the third attempt; its error reaches the handler
Suffix ==
    /\ pc = "suffix"
    /\ actual_branch_name' = Suffixed(branch_name)
    /\ \E o \in Outcomes(GitCheckoutNew(repo, Suffixed(branch_name), original_branch)) :
          /\ Ran(o, "checkout -b", Suffixed(branch_name))
          /\ pc' = IF o.ok THEN "pop" ELSE "rec_checkout"
          /\ raisedAt' = IF o.ok THEN raisedAt ELSE "branch"
    /\ UNCHANGED << Args, stash_created, remaining_stashed, result >>

\* 3. Pop stash to get files back
Pop ==
    /\ pc = "pop"
    /\ IF stash_created
       THEN \E o \in Outcomes(GitStashPop(repo)) : Ran(o, "stash pop", "temp")
       ELSE UNCHANGED << repo, ops, faultsLeft >>
    /\ pc' = "reset"
    /\ UNCHANGED << Args, actual_branch_name, stash_created, remaining_stashed,
                    result, raisedAt >>

\* 4. Reset index (unstage everything)
Reset ==
    /\ pc = "reset"
    /\ \E o \in Outcomes(GitReset(repo)) : Ran(o, "reset", "HEAD")
    /\ pc' = "stage"
    /\ UNCHANGED << Args, actual_branch_name, stash_created, remaining_stashed,
                    result, raisedAt >>

\* 5. Stage only the specific files: one iteration of the loop
Stage ==
    /\ pc = "stage"
    /\ LET f == FirstOf(safe_files \ Attempted)
       IN  /\ \E o \in Outcomes(IndexAdd(repo, f)) : Ran(o, "add", f)
           /\ pc' = IF safe_files \ Attempted = {f} THEN "commit" ELSE "stage"
    /\ UNCHANGED << Args, actual_branch_name, stash_created, remaining_stashed,
                    result, raisedAt >>

\* Mutant: after the commit the engine goes straight to step 8.
Commit_SkipsRestash ==
    /\ pc = "commit"
    /\ \E o \in Outcomes(IndexCommit(repo)) :
          /\ Ran(o, "commit", "message")
          /\ pc' = IF o.ok THEN "return" ELSE "rec_checkout"
          /\ raisedAt' = IF o.ok THEN raisedAt ELSE "commit"
    /\ UNCHANGED << Args, actual_branch_name, stash_created, remaining_stashed,
                    result >>

\* 6. Commit
Commit ==
    /\ pc = "commit"
    /\ \E o \in Outcomes(IndexCommit(repo)) :
          /\ Ran(o, "commit", "message")
          /\ pc' = IF o.ok THEN "restash" ELSE "rec_checkout"
          /\ raisedAt' = IF o.ok THEN raisedAt ELSE "commit"
    /\ UNCHANGED << Args, actual_branch_name, stash_created, remaining_stashed,
                    result >>

\* Mutant: the remaining changes are stashed only under local-merge.
Restash_OnlyLocalMerge ==
    /\ pc = "restash"
    /\ IF strategy = "local-merge"
       THEN \E o \in Outcomes(GitStashPush(repo, "redgit-remaining-" \o branch_name, callNo)) :
               /\ Ran(o, "stash push", "remaining")
               /\ remaining_stashed' = o.ok
       ELSE UNCHANGED << repo, ops, faultsLeft, remaining_stashed >>
    /\ pc' = "return"
    /\ UNCHANGED << Args, actual_branch_name, stash_created, result, raisedAt >>

\* 7. Stash remaining changes before switching
Restash ==
    /\ pc = "restash"
    /\ \E o \in Outcomes(GitStashPush(repo, "redgit-remaining-" \o branch_name, callNo)) :
          /\ Ran(o, "stash push", "remaining")
          /\ remaining_stashed' = o.ok
    /\ pc' = "return"
    /\ UNCHANGED << Args, actual_branch_name, stash_created, result, raisedAt >>

\* Mutant: step 8 checks out the feature branch again.
Return_WrongBranch ==
    /\ pc = "return"
    /\ \E o \in Outcomes(GitCheckout(repo, actual_branch_name)) :
          /\ Ran(o, "checkout", original_branch)
          /\ pc' = IF ~o.ok THEN "rec_checkout"
                   ELSE IF strategy = "local-merge" THEN "merge"
                   ELSE "unstash"
          /\ raisedAt' = IF o.ok THEN raisedAt ELSE "return"
    /\ UNCHANGED << Args, actual_branch_name, stash_created, remaining_stashed,
                    result >>

\* Mutant: step 9 merges whatever the strategy.
Return_AlwaysMerges ==
    /\ pc = "return"
    /\ \E o \in Outcomes(GitCheckout(repo, original_branch)) :
          /\ Ran(o, "checkout", original_branch)
          /\ pc' = IF ~o.ok THEN "rec_checkout" ELSE "merge"
          /\ raisedAt' = IF o.ok THEN raisedAt ELSE "return"
    /\ UNCHANGED << Args, actual_branch_name, stash_created, remaining_stashed,
                    result >>

\* 8. Checkout base branch
Return ==
    /\ pc = "return"
    /\ \E o \in Outcomes(GitCheckout(repo, original_branch)) :
          /\ Ran(o, "checkout", original_branch)
          /\ pc' = IF ~o.ok THEN "rec_checkout"
                   ELSE IF strategy = "local-merge" THEN "merge"
                   ELSE "unstash"
          /\ raisedAt' = IF o.ok THEN raisedAt ELSE "return"
    /\ UNCHANGED << Args, actual_branch_name, stash_created, remaining_stashed,
                    result >>

\* Mutant: step 9 merges the requested name, not the branch actually used.
Merge_RequestedName ==
    /\ pc = "merge"
    /\ \E o \in Outcomes(GitMerge(repo, branch_name, TRUE)) :
          /\ Ran(o, "merge --no-ff", branch_name)
          /\ pc' = IF o.ok THEN "delete" ELSE "merge_ff"
    /\ UNCHANGED << Args, actual_branch_name, stash_created, remaining_stashed,
                    result, raisedAt >>

\* Mutant: a failed no-fast-forward merge goes straight to the handler.
Merge_NoFallback ==
    /\ pc = "merge"
    /\ \E o \in Outcomes(GitMerge(repo, actual_branch_name, TRUE)) :
          /\ Ran(o, "merge --no-ff", actual_branch_name)
          /\ pc' = IF o.ok THEN "delete" ELSE "rec_checkout"
          /\ raisedAt' = IF o.ok THEN raisedAt ELSE "merge"
    /\ UNCHANGED << Args, actual_branch_name, stash_created, remaining_stashed,
                    result >>

\* 9. Merge feature branch (--no-ff)
Merge ==
    /\ pc = "merge"
    /\ \E o \in Outcomes(GitMerge(repo, actual_branch_name, TRUE)) :
          /\ Ran(o, "merge --no-ff", actual_branch_name)
          /\ pc' = IF o.ok THEN "delete" ELSE "merge_ff"
    /\ UNCHANGED << Args, actual_branch_name, stash_created, remaining_stashed,
                    result, raisedAt >>

\* 9. (fallback) plain merge; its error reaches the handler
MergeFF ==
    /\ pc = "merge_ff"
    /\ \E o \in Outcomes(GitMerge(repo, actual_branch_name, FALSE)) :
          /\ Ran(o, "merge", actual_branch_name)
          /\ pc' = IF o.ok THEN "delete" ELSE "rec_checkout"
          /\ raisedAt' = IF o.ok THEN raisedAt ELSE "merge"
    /\ UNCHANGED << Args, actual_branch_name, stash_created, remaining_stashed,
                    result >>

\* 10. Delete feature branch (it's merged now)
Delete ==
    /\ pc = "delete"
    /\ \E o \in Outcomes(GitBranchDelete(repo, actual_branch_name)) :
          Ran(o, "branch -d", actual_branch_name)
    /\ pc' = "unstash"
    /\ UNCHANGED << Args, actual_branch_name, stash_created, remaining_stashed,
                    result, raisedAt >>

\* 11. Pop remaining stash, then return True
Unstash ==
    /\ pc = "unstash"
    /\ IF remaining_stashed
       THEN \E o \in Outcomes(GitStashPop(repo)) : Ran(o, "stash pop", "remaining")
       ELSE UNCHANGED << repo, ops, faultsLeft >>
    /\ pc' = "idle"
    /\ result' = "true"
    /\ UNCHANGED << Args, actual_branch_name, stash_created, remaining_stashed,
                    raisedAt >>

\* Mutant: both recovery commands share one try block, so a failed checkout
\* skips the pop.
RecoverCheckout_AbortsOnFailure ==
    /\ pc = "rec_checkout"
    /\ \E o \in Outcomes(GitCheckout(repo, original_branch)) :
          /\ Ran(o, "recover checkout", original_branch)
          /\ pc' = IF o.ok THEN "rec_pop" ELSE "idle"
          /\ result' = IF o.ok THEN result ELSE "raised"
    /\ UNCHANGED << Args, actual_branch_name, stash_created, remaining_stashed,
                    raisedAt >>

\* except: try to recover - go back to base branch
RecoverCheckout ==
    /\ pc = "rec_checkout"
    /\ \E o \in Outcomes(GitCheckout(repo, original_branch)) :
          Ran(o, "recover checkout", original_branch)
    /\ pc' = "rec_pop"
    /\ UNCHANGED << Args, actual_branch_name, stash_created, remaining_stashed,
                    result, raisedAt >>

\* except: try to pop any stash, then raise e
RecoverPop ==
    /\ pc = "rec_pop"
    /\ \E o \in Outcomes(GitStashPop(repo)) : Ran(o, "recover pop", "any")
    /\ pc' = "idle"
    /\ result' = "raised"
    /\ UNCHANGED << Args, actual_branch_name, stash_created, remaining_stashed,
                    raisedAt >>

\* The files a caller may name.
Requests == SUBSET Files

Next ==
    \/ \E b \in RequestedNames, fs \in Requests, s \in Strategies : Call(b, fs, s)
    \/ Stash
    \/ Create
    \/ Checkout
    \/ Suffix
    \/ Pop
    \/ Reset
    \/ Stage
    \/ Commit
    \/ Restash
    \/ Return
    \/ Merge
    \/ MergeFF
    \/ Delete
    \/ Unstash
    \/ RecoverCheckout
    \/ RecoverPop

Spec == Init /\ [][Next]_vars

TypeOK ==
    /\ repo.head \in BranchNames
    /\ repo.branches[repo.head] # 0
    /\ \A f \in Files : repo.index[f] \in Contents /\ repo.wt[f] \in Contents
    /\ repo.unmerged \subseteq Files
    /\ pc \in {"idle", "stash", "create", "checkout", "suffix", "pop", "reset",
               "stage", "commit", "restash", "return", "merge", "merge_ff",
               "delete", "unstash", "rec_checkout", "rec_pop"}
    /\ result \in {"none", "true", "false", "raised"}
    /\ faultsLeft \in 0..MaxFaults

-----------------------------------------------------------------------------
(* Vocabulary of the properties. *)

Returned(x) == pc = "idle" /\ result = x

\* No command of the current call failed for a reason outside the repository.
NoFault == faultsLeft = MaxFaults

\* N: the paths with uncommitted state when the call began.
Uncommitted(r) ==
    {f \in Files : r.wt[f] # HeadTree(r)[f] \/ r.index[f] # HeadTree(r)[f]}

\* The commit of step 6 is the first commit the call adds.
CommitMade == \E i \in DOMAIN ops : ops[i].op = "commit" /\ ops[i].ok
NewCommit == Len(pre.commits) + 1
NewCommitParent == CHOOSE p \in repo.commits[NewCommit].parents : TRUE

\* K: the paths whose content the step-6 commit changes.
Committed ==
    IF CommitMade
    THEN {f \in Files : repo.commits[NewCommit].tree[f]
                            # repo.commits[NewCommitParent].tree[f]}
    ELSE {}

\* Stash entries pushed by the current call and still on the stack.
OwnStashes == {i \in DOMAIN repo.stash : repo.stash[i].call = callNo}

\* The call has ended (returned or raised).
Ended == pc = "idle" /\ result # "none"

\* safe_files as the contract words it: the requested files that are not
\* excluded and exist on disk when the call begins.
ClaimedSafe == {f \in files : ~IsExcluded(f) /\ pre.wt[f] # Absent}

\* Commits the current call created.
NewCommits == (Len(pre.commits) + 1) .. Len(repo.commits)

OnBranch(r, c, name) == Exists(r, name) /\ c \in Ancestors(r.commits, r.branches[name])

\* What `git status` says of a path.
GitStatus(r, f) ==
    CASE r.index[f] = Absent /\ r.wt[f] # Absent -> "untracked"
      [] r.index[f] # Absent /\ r.wt[f] = Absent -> "deleted"
      [] r.index[f] # Absent /\ HeadTree(r)[f] = Absent -> "added"
      [] r.wt[f] # HeadTree(r)[f] -> "modified"
      [] OTHER -> "clean"

RecoveryCheckoutOk ==
    \E i \in DOMAIN ops : ops[i].op = "recover checkout" /\ ops[i].ok

\* A failure of a step whose error is not swallowed: the third branch
\* attempt, the commit, the return checkout, the fallback plain merge.
FatalFailure(o) ==
    /\ ~o.ok
    /\ \/ o.op = "checkout -b" /\ o.arg = Suffixed(branch_name)
       \/ o.op = "commit"
       \/ o.op = "checkout" /\ o.arg = original_branch
       \/ o.op = "merge"

StepOf(o) ==
    CASE o.op = "checkout -b" -> "branch"
      [] o.op = "commit" -> "commit"
      [] o.op = "checkout" -> "return"
      [] OTHER -> "merge"

-----------------------------------------------------------------------------
(* The propose command: _process_matched_groups and                         *)
(* _process_unmatched_groups run one engine call per commit group, in list  *)
(* order, on one GitOps instance, with the strategy of the workflow.        *)

MaxGroups == 2

\* A commit group: the branch name derived for it and its files.
Groups == [branch : RequestedNames, files : SUBSET Files]

\* The group lists: the groups of one list name disjoint files.
GroupLists ==
    {gs \in UNION {[1 .. n -> Groups] : n \in 0 .. MaxGroups} :
        \A i, j \in DOMAIN gs : i # j => gs[i].files \cap gs[j].files = {}}

\* What the repository holds besides main when propose starts.
LoopScenarios == {"none", "forked", "taken", "stash"}

\* The loop follows git's own decisions: no environment failure.
InitLoop ==
    /\ \E st \in [Files -> Statuses], sc \in LoopScenarios :
          /\ \A f \in Files : st[f] \in StatusChoices(f)
          /\ st[".env"] \in {"absent", "U"}
          /\ repo = InitRepo(st, sc)
    /\ original_branch = BaseName
    /\ pc = "idle"
    /\ branch_name = "none"
    /\ files = {}
    /\ strategy = "none"
    /\ safe_files = {}
    /\ actual_branch_name = "none"
    /\ stash_created = FALSE
    /\ remaining_stashed = FALSE
    /\ result = "none"
    /\ raisedAt = "none"
    /\ ops = << >>
    /\ pre = repo
    /\ callNo = 0
    /\ groups \in GroupLists
    /\ callsLeft = Len(groups)
    /\ faultsLeft = 0
    /\ workflow_strategy \in Strategies
    /\ session = << >>
    /\ outcomes = << >>
    /\ start = repo
    /\ changes = NotCalled
    /\ all_changes = NotCalled
    /\ excluded = NotCalled
    /\ index_diff_reversed = FALSE
    /\ reads = 0

\* for i, group in enumerate(groups, 1): ... create_branch_and_commit(...)
ProcessGroup ==
    /\ pc = "idle"
    /\ Len(outcomes) = callNo
    /\ callNo < Len(groups)
    /\ Enter(groups[callNo + 1].branch, groups[callNo + 1].files, workflow_strategy)
    /\ UNCHANGED << loopVars, inspectVars >>

\* Mutant: the exception of a group is not caught and ends the loop.
GroupDone_Propagates ==
    /\ pc = "idle"
    /\ result # "none"
    /\ Len(outcomes) < callNo
    /\ \E saved \in (IF result = "true" THEN BOOLEAN ELSE {FALSE}) :
          /\ outcomes' = Append(outcomes, [result |-> result, saved |-> saved,
                                           branch |-> branch_name,
                                           actual |-> actual_branch_name,
                                           commit |-> IF CommitMade THEN NewCommit ELSE 0])
          /\ session' = IF saved THEN Append(session, branch_name) ELSE session
    /\ callsLeft' = IF result = "raised" THEN 0 ELSE callsLeft
    /\ UNCHANGED << repo, original_branch, pc, branch_name, files, strategy,
                    safe_files, actual_branch_name, stash_created,
                    remaining_stashed, result, raisedAt, ops, pre, callNo,
                    faultsLeft, groups, workflow_strategy, start, inspectVars >>

\* The call of the group has ended: True runs the task-management hooks and
\* then add_session_branch (a hook that raises lands in the same except
\* clause, before the branch is saved); False is reported as "No files to
\* commit"; an exception is caught and reported.  The loop goes on.
GroupDone ==
    /\ pc = "idle"
    /\ result # "none"
    /\ Len(outcomes) < callNo
    /\ \E saved \in (IF result = "true" THEN BOOLEAN ELSE {FALSE}) :
          /\ outcomes' = Append(outcomes, [result |-> result, saved |-> saved,
                                           branch |-> branch_name,
                                           actual |-> actual_branch_name,
                                           commit |-> IF CommitMade THEN NewCommit ELSE 0])
          /\ session' = IF saved THEN Append(session, branch_name) ELSE session
    /\ UNCHANGED << repo, original_branch, pc, branch_name, files, strategy,
                    safe_files, actual_branch_name, stash_created,
                    remaining_stashed, result, raisedAt, ops, pre, callNo,
                    callsLeft, faultsLeft, groups, workflow_strategy, start,
                    inspectVars >>

NextLoop ==
    \/ ProcessGroup
    \/ GroupDone
    \/ Stash
    \/ Create
    \/ Checkout
    \/ Suffix
    \/ Pop
    \/ Reset
    \/ Stage
    \/ Commit
    \/ Restash
    \/ Return
    \/ Merge
    \/ MergeFF
    \/ Delete
    \/ Unstash
    \/ RecoverCheckout
    \/ RecoverPop

SpecLoop == InitLoop /\ [][NextLoop]_vars

\* The propose loop while commands may fail for reasons outside the
\* repository: two modified or new source files, a colliding branch.
InitLoopFaults ==
    /\ \E st \in [Files -> Statuses], sc \in {"forked", "taken"} :
          /\ st["a.py"] = "M"
          /\ st["b.py"] \in {"M", "U"}
          /\ st[".env"] = "absent"
          /\ repo = InitRepo(st, sc)
    /\ original_branch = BaseName
    /\ pc = "idle"
    /\ branch_name = "none"
    /\ files = {}
    /\ strategy = "none"
    /\ safe_files = {}
    /\ actual_branch_name = "none"
    /\ stash_created = FALSE
    /\ remaining_stashed = FALSE
    /\ result = "none"
    /\ raisedAt = "none"
    /\ ops = << >>
    /\ pre = repo
    /\ callNo = 0
    /\ groups \in GroupLists
    /\ callsLeft = Len(groups)
    /\ faultsLeft = MaxFaults
    /\ workflow_strategy \in Strategies
    /\ session = << >>
    /\ outcomes = << >>
    /\ start = repo
    /\ changes = NotCalled
    /\ all_changes = NotCalled
    /\ excluded = NotCalled
    /\ index_diff_reversed = FALSE
    /\ reads = 0

SpecLoopFaults == InitLoopFaults /\ [][NextLoop]_vars

-----------------------------------------------------------------------------
(* The change inspector: GitOps.get_changes and get_excluded_changes.       *)

\* git lists paths in byte order.
PathOrder == << ".env", "a.py", "b.py" >>

\* repo.head.is_valid(): the checked-out branch has a commit.
HeadValid(r) == r.branches[r.head] # 0

\* repo.untracked_files: on disk and not in the index.
UntrackedFiles(r) ==
    SelectSeq(PathOrder, LAMBDA f : r.index[f] = Absent /\ r.wt[f] # Absent)

\* repo.index.diff(None): the index against the working tree.
UnstagedDiff(r) ==
    LET paths == SelectSeq(PathOrder,
                           LAMBDA f : r.index[f] # Absent /\ r.wt[f] # r.index[f])
    IN  [i \in DOMAIN paths |->
            [a_path |-> paths[i],
             new_file |-> FALSE,
             deleted_file |-> r.wt[paths[i]] = Absent]]

\* repo.index.diff("HEAD"): the index against the last commit.  GitPython
\* diffs with the index as one side and HEAD as the other; which side counts
\* as the new one is the library's choice (reversed): a path staged as new
\* is flagged new_file from HEAD's side and deleted_file from the index's.
StagedDiff(r, reversed) ==
    LET paths == SelectSeq(PathOrder, LAMBDA f : r.index[f] # HeadTree(r)[f])
        added(f) == HeadTree(r)[f] = Absent
        removed(f) == r.index[f] = Absent
    IN  [i \in DOMAIN paths |->
            [a_path |-> paths[i],
             new_file |-> IF reversed THEN removed(paths[i]) ELSE added(paths[i]),
             deleted_file |-> IF reversed THEN added(paths[i]) ELSE removed(paths[i])]]

\* Mutant: the staged scan runs first.
Candidates_StagedFirst(r, reversed) ==
    LET u == UntrackedFiles(r)
        w == UnstagedDiff(r)
        h == IF HeadValid(r) THEN StagedDiff(r, reversed) ELSE << >>
    IN  [i \in DOMAIN h |->
                [file |-> h[i].a_path,
                 status |-> IF h[i].new_file THEN "A"
                            ELSE IF h[i].deleted_file THEN "D" ELSE "M"]]
        \o [i \in DOMAIN u |-> [file |-> u[i], status |-> "U"]]
        \o [i \in DOMAIN w |->
                [file |-> w[i].a_path,
                 status |-> IF w[i].deleted_file THEN "D" ELSE "M"]]

\* The entries the three loops of get_changes would append, in the order the
\* loops meet them, before `seen` and the exclusion test are applied.
Candidates(r, reversed) ==
    LET u == UntrackedFiles(r)
        w == UnstagedDiff(r)
        h == IF HeadValid(r) THEN StagedDiff(r, reversed) ELSE << >>
    IN  [i \in DOMAIN u |-> [file |-> u[i], status |-> "U"]]
        \o [i \in DOMAIN w |->
                [file |-> w[i].a_path,
                 status |-> IF w[i].deleted_file THEN "D" ELSE "M"]]
        \o [i \in DOMAIN h |->
                [file |-> h[i].a_path,
                 status |-> IF h[i].new_file THEN "A"
                            ELSE IF h[i].deleted_file THEN "D" ELSE "M"]]

RECURSIVE Scan_NoFilter(_, _, _)
\* Mutant: every unseen path is appended, excluded or not.
Scan_NoFilter(cands, seen, include_excluded) ==
    IF cands = << >> THEN << >>
    ELSE IF Head(cands).file \in seen
         THEN Scan_NoFilter(Tail(cands), seen, include_excluded)
         ELSE << Head(cands) >>
              \o Scan_NoFilter(Tail(cands), seen \cup {Head(cands).file},
                               include_excluded)

RECURSIVE Scan(_, _, _)
\* if f not in seen: seen.add(f); if include_excluded or not is_excluded(f):
\* changes.append(...)
Scan(cands, seen, include_excluded) ==
    IF cands = << >> THEN << >>
    ELSE IF Head(cands).file \in seen
         THEN Scan(Tail(cands), seen, include_excluded)
         ELSE (IF include_excluded \/ ~IsExcluded(Head(cands).file)
               THEN << Head(cands) >> ELSE << >>)
              \o Scan(Tail(cands), seen \cup {Head(cands).file}, include_excluded)

GetChanges(r, include_excluded, reversed) ==
    Scan(Candidates(r, reversed), {}, include_excluded)

RECURSIVE ScanExcluded_NoSeen(_, _)
\* Mutant: `seen` is never consulted.
ScanExcluded_NoSeen(cands, seen) ==
    IF cands = << >> THEN << >>
    ELSE (IF IsExcluded(Head(cands).file) THEN << Head(cands).file >> ELSE << >>)
         \o ScanExcluded_NoSeen(Tail(cands), seen)

RECURSIVE ScanExcluded(_, _)
\* if f not in seen and is_excluded(f): seen.add(f); excluded.append(f)
ScanExcluded(cands, seen) ==
    IF cands = << >> THEN << >>
    ELSE IF Head(cands).file \notin seen /\ IsExcluded(Head(cands).file)
         THEN << Head(cands).file >>
              \o ScanExcluded(Tail(cands), seen \cup {Head(cands).file})
         ELSE ScanExcluded(Tail(cands), seen)

GetExcludedChanges(r, reversed) == ScanExcluded(Candidates(r, reversed), {})

\* Calls of the inspector in one behaviour.
MaxReads == 3

\* Everything of the engine but the repository.
engineLocals == << original_branch, pc, branch_name, files, strategy,
                   safe_files, actual_branch_name, stash_created,
                   remaining_stashed, result, raisedAt, ops, pre, callNo,
                   callsLeft, faultsLeft >>

\* Mutant: the call refreshes the index (git add -u) before it reads.
InspectChanges_Stages(include_excluded) ==
    /\ pc = "idle"
    /\ reads < MaxReads
    /\ reads' = reads + 1
    /\ repo' = [repo EXCEPT !.index = [f \in Files |->
                    IF repo.index[f] # Absent THEN repo.wt[f] ELSE Absent]]
    /\ IF include_excluded
       THEN /\ all_changes' = Listed(GetChanges(repo', TRUE, index_diff_reversed))
            /\ UNCHANGED changes
       ELSE /\ changes' = Listed(GetChanges(repo', FALSE, index_diff_reversed))
            /\ UNCHANGED all_changes
    /\ UNCHANGED << engineLocals, loopVars, excluded, index_diff_reversed >>

\* A call of get_changes: it reads the repository and returns a list.
InspectChanges(include_excluded) ==
    /\ pc = "idle"
    /\ reads < MaxReads
    /\ reads' = reads + 1
    /\ IF include_excluded
       THEN /\ all_changes' = Listed(GetChanges(repo, TRUE, index_diff_reversed))
            /\ UNCHANGED changes
       ELSE /\ changes' = Listed(GetChanges(repo, FALSE, index_diff_reversed))
            /\ UNCHANGED all_changes
    /\ UNCHANGED << repo, engineLocals, loopVars, excluded, index_diff_reversed >>

\* A call of get_excluded_changes.
InspectExcluded ==
    /\ pc = "idle"
    /\ reads < MaxReads
    /\ reads' = reads + 1
    /\ excluded' = Listed(GetExcludedChanges(repo, index_diff_reversed))
    /\ UNCHANGED << repo, engineLocals, loopVars, changes, all_changes,
                    index_diff_reversed >>

\* The repositories the inspector is called on: every file has any content
\* in the last commit, in the index and on disk; the branch may be unborn.
InitInspect ==
    /\ \E hd \in [Files -> {Absent, "v1"}],
          ix \in [Files -> {Absent, "v1", "v2"}],
          w \in [Files -> {Absent, "v1", "v2", "v3"}],
          born \in BOOLEAN :
          /\ ~born => hd = AllAbsent
          /\ repo = [commits |-> << [tree |-> AllAbsent, parents |-> {}],
                                    [tree |-> hd, parents |-> {1}] >>,
                     branches |-> [n \in BranchNames |->
                                     IF n = BaseName /\ born THEN 2 ELSE 0],
                     head |-> BaseName,
                     index |-> ix,
                     wt |-> w,
                     unmerged |-> {},
                     stash |-> << >>]
    /\ original_branch = BaseName
    /\ pc = "idle"
    /\ branch_name = "none"
    /\ files = {}
    /\ strategy = "none"
    /\ safe_files = {}
    /\ actual_branch_name = "none"
    /\ stash_created = FALSE
    /\ remaining_stashed = FALSE
    /\ result = "none"
    /\ raisedAt = "none"
    /\ ops = << >>
    /\ pre = repo
    /\ callNo = 0
    /\ callsLeft = 0
    /\ faultsLeft = 0
    /\ groups = << >>
    /\ workflow_strategy = "none"
    /\ session = << >>
    /\ outcomes = << >>
    /\ start = repo
    /\ changes = NotCalled
    /\ all_changes = NotCalled
    /\ excluded = NotCalled
    /\ index_diff_reversed \in BOOLEAN
    /\ reads = 0

NextInspect ==
    \/ \E include_excluded \in BOOLEAN : InspectChanges(include_excluded)
    \/ InspectExcluded

SpecInspect == InitInspect /\ [][NextInspect]_vars

-----------------------------------------------------------------------------
(* C1 .. C10 *)

\* C1 (no data loss on success): when a call returns True having committed a
\* strict subset K of the uncommitted files N, originalBranch is checked out
\* and every file of N \ K is in the working tree with its pre-call content.
C1_NoDataLossOnSuccess ==
    (Returned("true") /\ Committed \subseteq Uncommitted(pre)
                      /\ Committed # Uncommitted(pre))
    => /\ repo.head = original_branch
       /\ \A f \in Uncommitted(pre) \ Committed : repo.wt[f] = pre.wt[f]

C3_OnlySafeFilesStaged ==
    \A i \in DOMAIN ops :
        ops[i].op = "add" => ~IsExcluded(ops[i].arg) /\ ops[i].arg \in ClaimedSafe

C3_Witness ==
    /\ pc = "commit"
    /\ \E f \in files : IsExcluded(f) /\ pre.wt[f] # Absent
    /\ \E i \in DOMAIN ops : ops[i].op = "add" /\ ops[i].ok

\* C4 (NoFilesToCommit is a no-op): a call returns False exactly when no
\* requested file is both non-excluded and on disk, and then it has run no
\* git command and the repository is as it was.
C4_NoFilesIsNoOp ==
    Ended =>
       /\ (result = "false") <=> (ClaimedSafe = {})
       /\ result = "false" => (repo = pre /\ ops = << >>)

C4_Witness ==
    /\ Returned("false")
    /\ \E f \in files : ~IsExcluded(f)
    /\ Dirty(repo)

\* C5 (failure path): once a non-tolerated step has failed, the only commands
\* that follow are the recovery checkout and then the recovery pop, the pop
\* whatever the checkout did; the call does not return normally and the
\* error it raises is that step's.
C5_FailurePath ==
    /\ \A i \in DOMAIN ops :
          FatalFailure(ops[i]) =>
             /\ Len(ops) <= i + 2
             /\ Len(ops) >= i + 1 => ops[i + 1].op = "recover checkout"
             /\ Len(ops) >= i + 2 => ops[i + 2].op = "recover pop"
             /\ raisedAt = StepOf(ops[i])
             /\ result \in {"none", "raised"}
             /\ pc \in {"rec_checkout", "rec_pop", "idle"}
    /\ Returned("raised") =>
          /\ Len(ops) >= 3
          /\ FatalFailure(ops[Len(ops) - 2])
          /\ ops[Len(ops)].op = "recover pop"
    /\ \A i \in DOMAIN ops :
          ops[i].op \in {"recover checkout", "recover pop"} =>
             \E j \in 1 .. (i - 1) : FatalFailure(ops[j])

C5_Witness ==
    /\ Returned("raised")
    /\ ~ops[Len(ops) - 1].ok
    /\ ops[Len(ops)].op = "recover pop"
    /\ raisedAt = "merge"

\* C6 as claimed: when a call raises, no commit it created is left on any
\* branch.
C6_RaiseLeavesNoCommit ==
    Returned("raised") => NewCommits \cap Reachable(repo) = {}

\* C6 as amended: when a call raises, no commit it created is reachable from
\* originalBranch; the step-6 commit, if it was made, is the tip of the
\* feature branch.
C6_RaiseKeepsBaseHistory ==
    Returned("raised") =>
       /\ \A c \in NewCommits : ~OnBranch(repo, c, original_branch)
       /\ CommitMade => /\ NewCommits = {NewCommit}
                        /\ repo.branches[actual_branch_name] = NewCommit

C6_Witness ==
    /\ Returned("raised")
    /\ raisedAt = "merge"
    /\ CommitMade
    /\ repo.branches[actual_branch_name] = NewCommit

\* C7 (stash balance on success): when a call returns True, no stash entry it
\* pushed is still on the stack.
C7_StashBalancedOnSuccess == Returned("true") => OwnStashes = {}

\* C8 (local-merge outcome): when a local-merge call returns True, the step-6
\* commit is reachable from originalBranch and every file outside the group
\* has its pre-call status and content.
C8_LocalMergeOutcome ==
    (Returned("true") /\ strategy = "local-merge") =>
       /\ OnBranch(repo, NewCommit, original_branch)
       /\ \A f \in Files \ files :
             GitStatus(repo, f) = GitStatus(pre, f) /\ repo.wt[f] = pre.wt[f]

\* C9 (merge-request outcome): when a merge-request call returns True, it ran
\* no merge and no branch deletion, the new commit is on a branch named as
\* requested or suffixed, originalBranch is checked out and points where it
\* did, and no earlier commit changed.
C9_MergeRequestOutcome ==
    (Returned("true") /\ strategy = "merge-request") =>
       /\ \A i \in DOMAIN ops : ops[i].op \notin {"merge --no-ff", "merge", "branch -d"}
       /\ Exists(repo, actual_branch_name)
       /\ actual_branch_name \in {branch_name, Suffixed(branch_name)}
       /\ OnBranch(repo, NewCommit, actual_branch_name)
       /\ repo.head = original_branch
       /\ repo.branches[original_branch] = pre.branches[original_branch]
       /\ SubSeq(repo.commits, 1, Len(pre.commits)) = pre.commits
       /\ \A n \in BranchNames : Exists(pre, n) => Exists(repo, n)

C9_Witness ==
    /\ Returned("true")
    /\ strategy = "merge-request"
    /\ actual_branch_name = Suffixed(branch_name)
    /\ Committed # {}

\* C10 as claimed (collision keeps history): when the requested branch exists
\* and some file is safe to commit, the call returns True, the commit was
\* made on the requested or the suffixed branch, and every commit of the
\* pre-existing branch is still reachable from some branch.
C10_CollisionSucceeds ==
    (Ended /\ Exists(pre, branch_name) /\ ClaimedSafe # {}) =>
       /\ result = "true"
       /\ Ancestors(pre.commits, pre.branches[branch_name]) \subseteq Reachable(repo)

\* C10 as amended: when the requested branch exists, the commit (if the call
\* gets that far) is made on the requested or the suffixed branch, and
\* however the call ends every commit of the pre-existing branch is still
\* reachable from some branch; the call itself may raise.
C10_CollisionKeepsHistory ==
    Exists(pre, branch_name) =>
       /\ pc = "restash" =>
             /\ repo.head \in {branch_name, Suffixed(branch_name)}
             /\ repo.head = actual_branch_name
             /\ HeadCommit(repo) = NewCommit
       /\ Ended =>
             Ancestors(pre.commits, pre.branches[branch_name]) \subseteq Reachable(repo)

C10_Witness ==
    /\ Returned("true")
    /\ strategy = "local-merge"
    /\ Exists(pre, branch_name)
    /\ pre.branches[branch_name] # pre.branches[original_branch]
    /\ ~Exists(repo, branch_name)

-----------------------------------------------------------------------------
(* C11 .. C20 *)

\* The plain checkout of the requested name (second attempt of step 2) ran
\* and failed.
PlainCheckoutFailed ==
    \E i \in DOMAIN ops :
        ops[i].op = "checkout" /\ ops[i].arg = branch_name /\ ~ops[i].ok
           /\ i <= 3

Finished(k) == Len(outcomes) >= k

\* A file a group can commit: not excluded, and on disk when propose starts.
Committable(f) == ~IsExcluded(f) /\ start.wt[f] # Absent

\* C12 (two sequential groups): two calls on one GitOps instance under
\* local-merge, for groups of disjoint, non-empty sets G1 and G2 of
\* committable uncommitted files of one dirty working tree, both return
\* True; afterwards both step-6 commits are reachable from originalBranch
\* and the uncommitted files are exactly the initial ones minus G1 minus G2.
C12_TwoGroupsSucceed ==
    (/\ Len(groups) = 2
     /\ Finished(2)
     /\ workflow_strategy = "local-merge"
     /\ \A k \in 1 .. 2 : /\ groups[k].files # {}
                          /\ groups[k].files \subseteq Uncommitted(start)
                          /\ \A f \in groups[k].files : Committable(f))
    => /\ \A k \in 1 .. 2 :
             /\ outcomes[k].result = "true"
             /\ outcomes[k].commit # 0
             /\ OnBranch(repo, outcomes[k].commit, original_branch)
       /\ Uncommitted(repo)
             = (Uncommitted(start) \ groups[1].files) \ groups[2].files

\* The branches of the finished groups whose call was followed by
\* add_session_branch, in order.
RECURSIVE SavedBranches(_)
SavedBranches(os) ==
    IF os = << >> THEN << >>
    ELSE (IF Head(os).saved THEN << Head(os).branch >> ELSE << >>)
         \o SavedBranches(Tail(os))

\* C13 (per-group isolation in the propose loop): groups are processed one
\* engine call at a time in list order with the workflow's strategy; after a
\* group has ended, by True, False or an exception, the next group of the
\* list can still be started; a branch is in the session only if its call
\* returned True.
C13_PerGroupIsolation ==
    /\ callNo <= Len(groups)
    /\ Len(outcomes) \in {callNo - 1, callNo}
    /\ pc # "idle" => Len(outcomes) = callNo - 1
    /\ callNo > 0 => /\ branch_name = groups[callNo].branch
                     /\ files = groups[callNo].files
                     /\ strategy = workflow_strategy
    /\ \A k \in DOMAIN outcomes :
          /\ outcomes[k].branch = groups[k].branch
          /\ outcomes[k].saved => outcomes[k].result = "true"
    /\ session = SavedBranches(outcomes)
    /\ (pc = "idle" /\ Len(outcomes) = callNo /\ callNo < Len(groups))
          => ENABLED ProcessGroup

C13_Witness ==
    /\ Len(outcomes) = 2
    /\ outcomes[1].result = "raised"
    /\ outcomes[2].result = "true"
    /\ session = << groups[2].branch >>

\* Where the working tree, the index and the last commit disagree on f.
IsUntracked(r, f) == r.index[f] = Absent /\ r.wt[f] # Absent
IsUnstaged(r, f) == r.index[f] # Absent /\ r.wt[f] # r.index[f]
IsStaged(r, f) == HeadValid(r) /\ r.index[f] # HeadTree(r)[f]
IsChanged(r, f) == IsUntracked(r, f) \/ IsUnstaged(r, f) \/ IsStaged(r, f)

PathsOf(list) == {list[i].file : i \in DOMAIN list}

\* C14 (exclusion in the inspector): no excluded path is in the list
\* get_changes(include_excluded=False) returns, whichever source reports it.
C14_NoExcludedInChanges ==
    changes.called =>
       /\ \A i \in DOMAIN changes.list : ~IsExcluded(changes.list[i].file)
       /\ PathsOf(changes.list) = {f \in Files : IsChanged(repo, f) /\ ~IsExcluded(f)}

C14_Witness ==
    /\ changes.called
    /\ changes.list # << >>
    /\ \E f \in Files : IsExcluded(f) /\ IsStaged(repo, f) /\ IsUnstaged(repo, f)

\* The source that reports f first: 1 untracked, 2 unstaged, 3 staged.
FirstSource(r, f) ==
    IF IsUntracked(r, f) THEN 1 ELSE IF IsUnstaged(r, f) THEN 2 ELSE 3

\* The list is de-duplicated, first source wins, in discovery order.
FirstSeenWins(list) ==
    /\ \A i, j \in DOMAIN list : i # j => list[i].file # list[j].file
    /\ \A i \in DOMAIN list :
          LET f == list[i].file
          IN  /\ IsChanged(repo, f)
              /\ IsUntracked(repo, f) => list[i].status = "U"
              /\ IsUnstaged(repo, f) =>
                    list[i].status = (IF repo.wt[f] = Absent THEN "D" ELSE "M")
              /\ (IsStaged(repo, f) /\ IsUnstaged(repo, f)) => list[i].status # "A"
              /\ FirstSource(repo, f) = 3 => list[i].status \in {"A", "D", "M"}
    /\ \A i, j \in DOMAIN list :
          i < j => FirstSource(repo, list[i].file) <= FirstSource(repo, list[j].file)

\* C15 (first-seen-wins): each path is at most once in the result of
\* get_changes; a path several sources report has the status of the first
\* of untracked, unstaged, staged (a path with staged and unstaged changes
\* is M or D, never A); untracked entries come first, then unstaged, then
\* staged.
C15_FirstSeenWins ==
    /\ changes.called => FirstSeenWins(changes.list)
    /\ all_changes.called => FirstSeenWins(all_changes.list)

C15_Witness ==
    /\ all_changes.called
    /\ \E f \in Files : IsStaged(repo, f) /\ IsUnstaged(repo, f)
                        /\ HeadTree(repo)[f] = Absent
    /\ \E f \in Files : IsStaged(repo, f) /\ IsUntracked(repo, f)
    /\ \E f \in Files : FirstSource(repo, f) = 3 /\ IsStaged(repo, f)

C17_Partition ==
    /\ excluded.called =>
          /\ \A i, j \in DOMAIN excluded.list : i # j => excluded.list[i] # excluded.list[j]
          /\ {excluded.list[i] : i \in DOMAIN excluded.list}
                = {f \in Files : IsExcluded(f) /\ IsChanged(repo, f)}
    /\ (changes.called /\ all_changes.called /\ excluded.called) =>
          /\ PathsOf(all_changes.list)
                = PathsOf(changes.list) \cup {excluded.list[i] : i \in DOMAIN excluded.list}
          /\ PathsOf(changes.list) \cap {excluded.list[i] : i \in DOMAIN excluded.list} = {}

C17_Witness ==
    /\ changes.called
    /\ all_changes.called
    /\ excluded.called
    /\ changes.list # << >>
    /\ excluded.list # << >>
    /\ \E f \in Files : IsExcluded(f) /\ IsStaged(repo, f) /\ IsUnstaged(repo, f)

\* C18 (stash flags): stash_created, once step 1 has run, and
\* remaining_stashed, once step 7 has run, are true only if that push added
\* an entry to the stash stack; a push with nothing to save leaves the flag
\* false, so the matching pop is not attempted.
C18_FlagsMeanStashed ==
    /\ pc = "create" =>
          (stash_created <=> (Len(repo.stash) = Len(pre.stash) + 1
                              /\ Head(repo.stash).call = callNo
                              /\ Head(repo.stash).label = "redgit-temp-" \o branch_name))
    /\ pc = "return" =>
          (remaining_stashed <=> (repo.stash # << >>
                                  /\ Head(repo.stash).call = callNo
                                  /\ Head(repo.stash).label
                                        = "redgit-remaining-" \o branch_name))

\* C19 (stashes stay within one call): when a call has returned or raised,
\* the stash entries that existed before it are still on the stack, in the
\* same order, below whatever the call left behind.
C19_ForeignStashesKept ==
    Ended =>
       /\ Len(repo.stash) >= Len(pre.stash)
       /\ SubSeq(repo.stash, Len(repo.stash) - Len(pre.stash) + 1, Len(repo.stash))
             = pre.stash

\* C20 (only safe_files are committed): the step-6 commit changes no path
\* outside safe_files, whatever was staged before the call or re-staged by
\* the step-3 pop.
C20_CommitOnlySafeFiles == CommitMade => Committed \subseteq safe_files

-----------------------------------------------------------------------------
(* C21 .. C30 *)

\* The commands of step 2.
BranchAttempt(o) ==
    \/ o.op = "checkout -b"
    \/ o.op = "checkout" /\ o.arg = branch_name

\* C21 (step 2 tie-break order): the first attempt creates branch_name from
\* originalBranch; a plain checkout of branch_name is tried only after that
\* failed; branch_name + "-v2" is created only after the plain checkout
\* failed too; no further name is tried, and a failure of the third attempt
\* is fatal (recovery, then raise).
C21_TieBreakOrder ==
    /\ \A i \in DOMAIN ops : BranchAttempt(ops[i]) => i \in 2 .. 4
    /\ Len(ops) >= 2 => (ops[2].op = "checkout -b" /\ ops[2].arg = branch_name)
    /\ Len(ops) >= 3 =>
          BranchAttempt(ops[3])
             <=> (~ops[2].ok /\ ops[3].op = "checkout" /\ ops[3].arg = branch_name)
    /\ Len(ops) >= 4 =>
          BranchAttempt(ops[4])
             <=> (/\ ~ops[2].ok
                  /\ BranchAttempt(ops[3])
                  /\ ~ops[3].ok
                  /\ ops[4].op = "checkout -b"
                  /\ ops[4].arg = Suffixed(branch_name))
    /\ (Len(ops) >= 4 /\ BranchAttempt(ops[4]) /\ ~ops[4].ok) =>
          /\ raisedAt = "branch"
          /\ result \in {"none", "raised"}
          /\ Len(ops) >= 5 => ops[5].op = "recover checkout"
          /\ \A i \in DOMAIN ops : ops[i].op \notin {"reset", "add", "commit"}
    /\ raisedAt = "branch" =>
          (Len(ops) >= 4 /\ BranchAttempt(ops[4]) /\ ~ops[4].ok)

C21_Witness ==
    /\ Returned("raised")
    /\ raisedAt = "branch"
    /\ NoFault
    /\ Exists(pre, Suffixed(branch_name))
    /\ ops[Len(ops)].op = "recover pop"

\* The branch the step-6 commit was made on: the one whose tip it became.
CommitBranch == IF PlainCheckoutFailed THEN Suffixed(branch_name) ELSE branch_name

\* C22 (actual-branch tracking): the branch named in the step-9 merges and
\* in the step-9 delete is the branch that was checked out when the step-6
\* commit was made (the requested name, or the "-v2" name when the suffix
\* path was taken); no other branch is merged or deleted.
C22_ActualBranchTracked ==
    /\ pc = "restash" =>
          /\ repo.head = CommitBranch
          /\ repo.branches[CommitBranch] = NewCommit
    /\ CommitMade => actual_branch_name = CommitBranch
    /\ \A i \in DOMAIN ops :
          ops[i].op \in {"merge --no-ff", "merge", "branch -d"} =>
             /\ CommitMade
             /\ ops[i].arg = CommitBranch
    /\ \A n \in BranchNames :
          (Exists(pre, n) /\ ~Exists(repo, n)) => n = CommitBranch
    /\ \A n \in BranchNames \ {original_branch, CommitBranch} :
          repo.branches[n] = pre.branches[n]

C22_Witness ==
    /\ Returned("true")
    /\ strategy = "local-merge"
    /\ CommitBranch = Suffixed(branch_name)
    /\ \E i \in DOMAIN ops : ops[i].op = "branch -d" /\ ops[i].ok
    /\ ~Exists(repo, Suffixed(branch_name))

\* The step of the documented sequence a command belongs to; 12 is recovery.
Rank(o) ==
    CASE o.op = "stash push" /\ o.arg = "temp" -> 1
      [] BranchAttempt(o) -> 2
      [] o.op = "stash pop" /\ o.arg = "temp" -> 3
      [] o.op = "reset" -> 4
      [] o.op = "add" -> 5
      [] o.op = "commit" -> 6
      [] o.op = "stash push" /\ o.arg = "remaining" -> 7
      [] o.op = "checkout" /\ o.arg = original_branch -> 8
      [] o.op \in {"merge --no-ff", "merge"} -> 9
      [] o.op = "branch -d" -> 10
      [] o.op = "stash pop" /\ o.arg = "remaining" -> 11
      [] OTHER -> 12

\* The positions of ops holding a command of step r.
AtRank(r) == {i \in DOMAIN ops : Rank(ops[i]) = r}

\* C23 (step ordering): the commands of a finished call were issued in
\* the order snapshot stash, branch checkout, pop, index reset, staging, commit,
\* re-snapshot stash, checkout of originalBranch, merge, branch delete,
\* final pop; a successful call has issued each unconditional step, one
\* add per file of safe_files, and the merge and delete only for local-merge.
C23_StepOrder ==
    Ended =>
       LET ranks == [i \in DOMAIN ops |-> Rank(ops[i])]
           at(r) == {i \in DOMAIN ops : ranks[i] = r}
       IN  /\ \A i \in 1 .. Len(ops) - 1 :
                 \/ ranks[i] < ranks[i + 1]
                 \/ ranks[i] = ranks[i + 1] /\ ranks[i] \in {2, 5, 9, 12}
           /\ result = "true" =>
                 /\ \A r \in {1, 4, 6, 7, 8} : Cardinality(at(r)) = 1
                 /\ at(2) # {} /\ at(12) = {}
                 /\ at(3) # {} <=> ops[1].ok
                 /\ Cardinality(at(5)) = Cardinality(safe_files)
                 /\ \A f \in safe_files : \E i \in at(5) : ops[i].arg = f
                 /\ \A i \in at(2) : ops[i].ok <=> ranks[i + 1] # 2
                 /\ \A i \in at(6) \cup at(8) : ops[i].ok
                 /\ at(9) # {} <=> strategy = "local-merge"
                 /\ Cardinality(at(10)) = (IF strategy = "local-merge" THEN 1 ELSE 0)
                 /\ \A i \in at(9) : ops[i].ok <=> ranks[i + 1] = 10
                 /\ at(11) # {} <=> \A i \in at(7) : ops[i].ok
                 /\ \A i \in at(11) : i = Len(ops)

C23_Witness ==
    /\ Returned("true")
    /\ strategy = "local-merge"
    /\ \A r \in {1, 3, 4, 6, 7, 8, 10, 11} : Cardinality(AtRank(r)) = 1
    /\ Cardinality(AtRank(5)) = 2
    /\ Cardinality(AtRank(2)) = 3

\* The adds of step 5 that raised; the steps after step 5 all succeeded.
LaterStepsOk == \A i \in DOMAIN ops : Rank(ops[i]) > 5 => ops[i].ok
AddFailed(f) == \E i \in DOMAIN ops : ops[i].op = "add" /\ ops[i].arg = f /\ ~ops[i].ok

\* C24 (partial staging tolerated): when the add of one file of safe_files
\* fails and the call returns true, every file of safe_files had its add
\* attempted, the commit was made, the file is not in the commit, and after
\* the call it is in the working tree with its content, uncommitted, on
\* originalBranch.
C24_PartialStaging ==
    \A f \in Files :
       (Returned("true") /\ LaterStepsOk /\ AddFailed(f) /\ f \in Uncommitted(pre)) =>
          /\ safe_files \subseteq Attempted
          /\ CommitMade
          /\ f \notin Committed
          /\ repo.head = original_branch
          /\ repo.wt[f] = pre.wt[f]
          /\ f \in Uncommitted(repo)

\* C25 (local-merge fallbacks): a failed no-fast-forward merge is followed
\* by exactly one plain merge of the same branch; a failed plain merge leads
\* to recovery and the raise, and the feature branch is not deleted; the
\* branch delete is attempted only directly after a successful merge, and
\* the call that attempted it returns true whether or not it succeeded.
C25_MergeFallbacks ==
    /\ \A i \in DOMAIN ops :
          (ops[i].op = "merge --no-ff" /\ ~ops[i].ok) =>
             IF i = Len(ops) THEN pc = "merge_ff"
             ELSE ops[i + 1].op = "merge" /\ ops[i + 1].arg = ops[i].arg
    /\ \A i \in DOMAIN ops :
          ops[i].op = "merge" =>
             /\ i > 1 /\ ops[i - 1].op = "merge --no-ff" /\ ~ops[i - 1].ok
             /\ \A j \in DOMAIN ops : ops[j].op = "merge" => j = i
    /\ \A i \in DOMAIN ops :
          (ops[i].op = "merge" /\ ~ops[i].ok) =>
             /\ raisedAt = "merge"
             /\ result \in {"none", "raised"}
             /\ Ended => Returned("raised")
             /\ i < Len(ops) => ops[i + 1].op = "recover checkout"
             /\ \A j \in DOMAIN ops : ops[j].op # "branch -d"
             /\ Exists(repo, ops[i].arg)
    /\ \A i \in DOMAIN ops :
          ops[i].op = "branch -d" =>
             /\ i > 1
             /\ ops[i - 1].op \in {"merge --no-ff", "merge"}
             /\ ops[i - 1].ok
             /\ ops[i - 1].arg = ops[i].arg
             /\ result \in {"none", "true"}
             /\ Ended => Returned("true")
             /\ ~ops[i].ok => Exists(repo, ops[i].arg)

C25_Witness ==
    /\ Returned("true")
    /\ \E i \in DOMAIN ops :
          /\ ops[i].op = "merge --no-ff" /\ ~ops[i].ok
          /\ ops[i + 1].op = "merge" /\ ops[i + 1].ok
          /\ ops[i + 2].op = "branch -d" /\ ops[i + 2].ok

EarlierRaised == {k \in 1 .. Len(outcomes) : k < callNo /\ outcomes[k].result = "raised"}

Missing == {f \in files : pre.wt[f] = Absent}
ReportedDeleted == {f \in Files : pre.index[f] # Absent /\ pre.wt[f] = Absent}

\* C27 (missing files are dropped): a requested file that is not on disk
\* is not in safe_files, is never staged and is not part of the commit; the
\* call is not refused because of it, the other files of safe_files are
\* still staged and committed; a group made only of missing paths returns
\* false without running a command.
C27_MissingFileDropped ==
    callNo >= 1 =>
       /\ safe_files = {f \in files \ Missing : ~IsExcluded(f)}
       /\ Attempted \cap Missing = {}
       /\ Committed \cap Missing = {}
       /\ safe_files # {} => result # "false"
       /\ pc \in {"commit", "restash"} => safe_files \subseteq Attempted
       /\ (Returned("true") /\ NoFault /\ \A i \in DOMAIN ops : ops[i].ok) =>
             \A g \in safe_files : repo.commits[NewCommit].tree[g] = pre.wt[g]
       /\ files \subseteq Missing =>
             /\ result = "false"
             /\ ops = << >>
             /\ repo = pre

C27_Witness ==
    /\ Returned("true")
    /\ NoFault
    /\ Missing \cap ReportedDeleted # {}
    /\ safe_files # {}
    /\ \A g \in safe_files : g \in Committed /\ repo.commits[NewCommit].tree[g] = pre.wt[g]

-----------------------------------------------------------------------------
(* create_branch_and_commit as one function of its inputs: the repository, *)
(* the arguments, and the commands the environment makes fail (F, a set of *)
(* [op, arg] pairs; a command git refuses anyway fails as git decides).    *)
(* It is used to compare two runs that differ in the strategy only.        *)

\* One command: t is the run so far, res what git makes of the command.
Do(t, res, op, arg, F) ==
    LET faulted == res.ok /\ [op |-> op, arg |-> arg] \in F
    IN  [repo |-> IF faulted THEN t.repo ELSE res.repo,
         ops |-> Append(t.ops, [op |-> op, arg |-> arg, ok |-> res.ok /\ ~faulted,
                                fault |-> faulted]),
         ok |-> res.ok /\ ~faulted]

\* for f in safe_files: try: self.repo.index.add([f]) except: pass
RECURSIVE StageAll(_, _, _)
StageAll(t, todo, F) ==
    IF todo = {} THEN t
    ELSE LET f == FirstOf(todo)
         IN  StageAll(Do(t, IndexAdd(t.repo, f), "add", f, F), todo \ {f}, F)

\* except Exception as e: checkout base, stash pop, raise e
Recover(t, F) ==
    LET c == Do(t, GitCheckout(t.repo, original_branch), "recover checkout",
                original_branch, F)
        p == Do(c, GitStashPop(c.repo), "recover pop", "any", F)
    IN  [repo |-> p.repo, ops |-> p.ops, result |-> "raised"]

\* Steps 9 to 11, after the checkout of the base branch succeeded.
Finish(t, actual, remaining, s, F) ==
    LET m1 == Do(t, GitMerge(t.repo, actual, TRUE), "merge --no-ff", actual, F)
        m2 == IF m1.ok THEN m1
              ELSE Do(m1, GitMerge(m1.repo, actual, FALSE), "merge", actual, F)
        d == Do(m2, GitBranchDelete(m2.repo, actual), "branch -d", actual, F)
        t9 == IF s = "local-merge" THEN d ELSE t
        t11 == IF remaining
               THEN Do(t9, GitStashPop(t9.repo), "stash pop", "remaining", F)
               ELSE t9
    IN  IF s = "local-merge" /\ ~m2.ok THEN Recover(m2, F)
        ELSE [repo |-> t11.repo, ops |-> t11.ops, result |-> "true"]

\* Steps 3 to 8, after a branch attempt succeeded; the strategy is read
\* by the steps after them only.
Select(t, b, safe, stashed, F) ==
    LET t3 == IF stashed THEN Do(t, GitStashPop(t.repo), "stash pop", "temp", F)
              ELSE t
        t4 == Do(t3, GitReset(t3.repo), "reset", "HEAD", F)
        t5 == StageAll(t4, safe, F)
        t6 == Do(t5, IndexCommit(t5.repo), "commit", "message", F)
        t7 == Do(t6, GitStashPush(t6.repo, "redgit-remaining-" \o b, callNo),
                 "stash push", "remaining", F)
        t8 == Do(t7, GitCheckout(t7.repo, original_branch), "checkout",
                 original_branch, F)
    IN  IF ~t6.ok THEN t6
        ELSE [repo |-> t8.repo, ops |-> t8.ops, ok |-> t8.ok, remaining |-> t7.ok]

\* Steps 1 to 8: the run up to the checkout of the base branch, or up to
\* the command whose error reaches the handler (ok is FALSE then).
ThroughStep8(r, b, fs, F) ==
    LET t0 == [repo |-> r, ops |-> << >>, ok |-> TRUE]
        t1 == Do(t0, GitStashPush(r, "redgit-temp-" \o b, callNo),
                 "stash push", "temp", F)
        c1 == Do(t1, GitCheckoutNew(t1.repo, b, original_branch), "checkout -b", b, F)
        c2 == IF c1.ok THEN c1
              ELSE Do(c1, GitCheckout(c1.repo, b), "checkout", b, F)
        c3 == IF c2.ok THEN c2
              ELSE Do(c2, GitCheckoutNew(c2.repo, Suffixed(b), original_branch),
                      "checkout -b", Suffixed(b), F)
        t8 == Select(c3, b, SafeFiles(r, fs), t1.ok, F)
    IN  IF ~c3.ok THEN [run |-> c3, actual |-> Suffixed(b)]
        ELSE [run |-> t8, actual |-> IF c2.ok THEN b ELSE Suffixed(b)]

\* The rest of the call, given its steps 1 to 8.
AfterStep8(r, fs, p, s, F) ==
    IF SafeFiles(r, fs) = {} THEN [repo |-> r, ops |-> << >>, result |-> "false"]
    ELSE IF ~p.run.ok THEN Recover(p.run, F)
    ELSE Finish(p.run, p.actual, p.run.remaining, s, F)

create_branch_and_commit(r, b, fs, s, F) ==
    AfterStep8(r, fs, ThroughStep8(r, b, fs, F), s, F)

\* The commands of the current call the environment made fail.
FaultsOf(seq) ==
    {[op |-> seq[i].op, arg |-> seq[i].arg] : i \in {j \in DOMAIN seq : seq[j].fault}}

\* The same call, from the same repository, with the same failures, under
\* the other strategy.
OtherStrategy == CHOOSE s \in Strategies : s # strategy
Runs ==
    LET p == ThroughStep8(pre, branch_name, files, FaultsOf(ops))
    IN  [same |-> AfterStep8(pre, files, p, strategy, FaultsOf(ops)),
         other |-> AfterStep8(pre, files, p, OtherStrategy, FaultsOf(ops))]
OtherRun ==
    create_branch_and_commit(pre, branch_name, files, OtherStrategy, FaultsOf(ops))

\* The git command a log entry stands for, and the stash, checkout, reset,
\* stage and commit commands of a run, in order.
Command(o) ==
    CASE o.op = "recover checkout" -> << "checkout", o.arg >>
      [] o.op \in {"stash pop", "recover pop"} -> << "stash pop", "" >>
      [] OTHER -> << o.op, o.arg >>
IsStep9(o) == o.op \in {"merge --no-ff", "merge", "branch -d"}
RECURSIVE Bookkeeping(_)
Bookkeeping(seq) ==
    IF seq = << >> THEN << >>
    ELSE IF IsStep9(Head(seq)) THEN Bookkeeping(Tail(seq))
    ELSE << Command(Head(seq)) >> \o Bookkeeping(Tail(seq))
MergeAbandoned(seq) == \E i \in DOMAIN seq : seq[i].op = "merge" /\ ~seq[i].ok

\* C28 as stated (strategy is opaque outside step 9): a run and the run
\* that differs from it in the strategy only issue the same sequence of
\* stash, checkout, reset, stage and commit commands.
C28_StrategyOpaque ==
    Ended => LET other == OtherRun IN Bookkeeping(ops) = Bookkeeping(other.ops)

\* C28 with the failure of step 9 set apart: the two runs issue the same
\* stash, checkout, reset, stage and commit commands unless the local-merge
\* run fails in both merges; then that run alone adds the recovery
\* checkout and stash pop to the commands they share up to step 8.
C28_StrategyOpaqueUnlessMergeFails ==
    Ended =>
       LET runs == Runs
           same == runs.same
           other == runs.other
           shared == {i \in DOMAIN ops : Rank(ops[i]) <= 8}
       IN  /\ ops = same.ops /\ result = same.result
           /\ ~(MergeAbandoned(ops) \/ MergeAbandoned(other.ops)) =>
                 /\ Bookkeeping(ops) = Bookkeeping(other.ops)
                 /\ result = other.result
           /\ Cardinality(shared) <= Len(other.ops)
           /\ SubSeq(other.ops, 1, Cardinality(shared)) = SubSeq(ops, 1, Cardinality(shared))
           /\ MergeAbandoned(ops) => strategy = "local-merge" /\ other.result = "true"

C28_Witness ==
    /\ Returned("true")
    /\ strategy = "merge-request"
    /\ ~NoFault
    /\ Len(Bookkeeping(ops)) >= 8
    /\ LET other == OtherRun
       IN  /\ \E i \in DOMAIN other.ops : other.ops[i].op = "branch -d"
           /\ Bookkeeping(ops) = Bookkeeping(other.ops)

\* Both recovery commands of the handler succeeded.
RecoverySucceeded ==
    /\ \E i \in DOMAIN ops : ops[i].op = "recover checkout" /\ ops[i].ok
    /\ \E i \in DOMAIN ops : ops[i].op = "recover pop" /\ ops[i].ok

\* A stash entry of the user's is still on the stack, or its changes are in
\* the working tree.
Kept(e) ==
    \/ \E i \in DOMAIN repo.stash : repo.stash[i] = e
    \/ \A f \in Files : e.wt[f] # e.base[f] => repo.wt[f] = e.wt[f]

\* C29 (no data loss on the failure path): when a call raised and both
\* recovery commands succeeded, every file that was uncommitted before the
\* call is in the working tree with its content or in the commit left on
\* the feature branch, no stash entry pushed by the call is outstanding,
\* and no stash entry of the user's was dropped without its changes being
\* in the working tree.
C29_NoDataLossOnRaise ==
    (Returned("raised") /\ RecoverySucceeded) =>
       /\ \A f \in Uncommitted(pre) :
             \/ repo.wt[f] = pre.wt[f]
             \/ CommitMade /\ repo.commits[NewCommit].tree[f] = pre.wt[f]
       /\ OwnStashes = {}
       /\ \A i \in DOMAIN pre.stash : Kept(pre.stash[i])

\* C30 (the session names the branch of the commit): for every group whose
\* call returned True and was saved to the session, the recorded branch
\* name is the branch the engine committed on, also when the engine fell
\* back to the "-v2" name.
C30_SessionNamesCommitBranch ==
    \A k \in DOMAIN outcomes :
       outcomes[k].saved => outcomes[k].branch = outcomes[k].actual

====
